---- MODULE Spec2Model ----
(***************************************************************************)
(* A model of snafu's log generator wrapper (Trigger_log_generator):       *)
(* the rate planner of __init__, the emitter _run_log_test, the two        *)
(* backend adapters _check_cloudwatch and _check_es, and the confirmation  *)
(* loop and result record of emit_actions; of the scale wrapper's          *)
(* Trigger_scale._run_scale; and of run_snafu's process_generator.         *)
(*                                                                         *)
(* Time is counted in ticks of 1/TicksPerSecond seconds.  Python floats    *)
(* that the program computes by division are IEEE-754 binary64 values,     *)
(* kept as a 53-bit mantissa in two limbs of 27 bits and a binary          *)
(* exponent, so that every quotient is rounded as the interpreter rounds.  *)
(***************************************************************************)
EXTENDS Integers, Sequences, FiniteSets, TLC

\* ------------------------------------------------------------------ bounds

\* Largest rate (messages per minute, messages per second) of a full run.
MaxRate == 2
\* Largest duration of a full run, in minutes.
MaxDuration == 1
\* Largest rate and duration handed to the rate planner alone.
MaxPlanRate == 12
MaxPlanDuration == 3
\* Largest confirmation timeout, in seconds.
MaxTimeout == 2
\* Clock resolution: ticks per second.
TicksPerSecond == 2
\* Largest time, in ticks, an adapter request or a clock read-to-read gap takes.
MaxLatency == 1
\* Largest number of status polls a log-insights job that completes needs.
MaxJobPolls == 1
\* Largest payload size, in characters.
MaxSize == 2
\* Largest number of invocations of the emitter in one process.
MaxInvocations == 2
\* Largest worker count asked of the scale wrapper, and largest the cluster has.
MaxScale == 4
MaxWorkers == 3
\* Largest number of machine sets of the cluster.
MaxSets == 3
\* Largest number of readiness reads that do not show the replicas asked for.
MaxReadyGets == 2
\* Largest number of pairs a wrapper's emit_actions produces.
MaxPairs == 2
\* Largest number of documents one Prometheus indexing makes.
MaxPromDocs == 1
\* Largest sys.getsizeof of a document, in bytes.
MaxDocBytes == 2

\* ------------------------------------------------------- program constants

\* Seconds in a minute: the 60 of __init__ and of the adapters' padding.
SecondsPerMinute == 60

\* The padding of the adapters' search window, in seconds: the 60 of lines
\* 132-133 and 156-157.
WindowPadding == 60

\* ------------------------------------------------- binary64 floating point

\* Limb base 2^27: a mantissa is hi * LimbBase + lo.
LimbBase == 2^27
\* hi of the smallest normalised mantissa, 2^52.
HiMin == 2^25
\* hi of 2^53, one past the largest mantissa.
HiTop == 2^26

BigDbl(x) ==
    LET l == 2 * x[2] IN <<2 * x[1] + (l \div LimbBase), l % LimbBase>>

BigGeq(x, y) == x[1] > y[1] \/ (x[1] = y[1] /\ x[2] >= y[2])

BigSub(x, y) ==
    IF x[2] >= y[2] THEN <<x[1] - y[1], x[2] - y[2]>>
    ELSE <<x[1] - y[1] - 1, x[2] + LimbBase - y[2]>>

BigInc(x) ==
    IF x[2] + 1 = LimbBase THEN <<x[1] + 1, 0>> ELSE <<x[1], x[2] + 1>>

BigHalf(x) == <<x[1] \div 2, (x[1] % 2) * (LimbBase \div 2) + (x[2] \div 2)>>

\* One step of long division: the remainder doubled, less b when it holds b,
\* and the quotient with the new bit appended.
DivStep(r, b, q) ==
    LET r2 == BigDbl(r)
    IN  IF BigGeq(r2, b) THEN <<BigSub(r2, b), BigInc(BigDbl(q))>>
        ELSE <<r2, BigDbl(q)>>

\* One more step, from the <<remainder, quotient>> of the step before.
NextStep(st, b) == DivStep(st[1], b, st[2])

\* Six steps of long division at once.
DivStep6(r, b, q) ==
    NextStep(NextStep(NextStep(NextStep(NextStep(DivStep(r, b, q), b), b), b), b), b)

\* 6 * n more quotient bits of r / b by long division: <<remainder, quotient>>.
RECURSIVE DivBits(_, _, _, _)
RECURSIVE DivRest(_, _, _)
DivBits(r, b, q, n) ==
    IF n = 0 THEN <<r, q>>
    ELSE DivRest(DivStep6(r, b, q), b, n)

\* The steps that follow st, which is computed before they are.
DivRest(st, b, n) ==
    IF st[1][1] >= 0 THEN DivBits(st[1], b, st[2], n - 1) ELSE st

\* A Python number: an int (lo holds the value) or a float (hi, lo, exp).
PyInt(n) == [kind |-> "int", hi |-> 0, lo |-> n, exp |-> 0]

\* The number of bits of an int 0 < n < 2^27.
BitLen(n) == CHOOSE k \in 1..27 : 2^(k - 1) <= n /\ n < 2^k

\* float(n) for an int 0 < n < 2^27: exact, the mantissa n * 2^(53 - BitLen(n)).
ToFloat(p) ==
    IF p.kind = "float" THEN p
    ELSE LET k == BitLen(p.lo)
         IN  IF k = 27
             THEN [kind |-> "float", hi |-> p.lo \div 2,
                   lo |-> (p.lo % 2) * (LimbBase \div 2), exp |-> k - 53]
             ELSE [kind |-> "float", hi |-> p.lo * 2^(26 - k), lo |-> 0,
                   exp |-> k - 53]

\* The remainder once the leading quotient bit, which is 1, is drawn from the
\* mantissas A and B.
FirstRem(A, B) ==
    IF BigGeq(A, B) THEN BigSub(A, B) ELSE BigSub(BigDbl(A), B)

\* The exponent of the quotient of mantissas A and B with exponents ea and eb.
QuotExp(A, ea, B, eb) == ea - eb - (IF BigGeq(A, B) THEN 52 ELSE 53)

\* Round to nearest, ties to even.  q holds the 53 mantissa bits, then the
\* guard bit, then one bit more; r is the remainder left.
RoundUp(r, q) ==
    /\ (q[2] \div 2) % 2 = 1
    /\ (q[2] % 2 = 1 \/ r # <<0, 0>> \/ (q[2] \div 4) % 2 = 1)

\* The float of mantissa M and exponent e, renormalised when rounding
\* carried into 2^53.
FPack(M, e) ==
    IF M[1] = HiTop
    THEN [kind |-> "float", hi |-> HiMin, lo |-> 0, exp |-> e + 1]
    ELSE [kind |-> "float", hi |-> M[1], lo |-> M[2], exp |-> e]

FRound(res, e) ==
    FPack(IF RoundUp(res[1], res[2]) THEN BigInc(BigHalf(BigHalf(res[2])))
          ELSE BigHalf(BigHalf(res[2])), e)

\* The quotient of two floats.  The leading quotient bit is 1; 54 more bits
\* are drawn: 52 of the mantissa, the guard bit and one more, which with the
\* remainder says whether anything lies below the guard bit.
FQuot(fa, fb) ==
    FRound(DivBits(FirstRem(<<fa.hi, fa.lo>>, <<fb.hi, fb.lo>>),
                   <<fb.hi, fb.lo>>, <<0, 1>>, 9),
           QuotExp(<<fa.hi, fa.lo>>, fa.exp, <<fb.hi, fb.lo>>, fb.exp))

\* a / b of two positive Python numbers: the correctly rounded binary64
\* quotient.
FDiv(a, b) == FQuot(ToFloat(a), ToFloat(b))

\* The least number of ticks that lasts at least f seconds (f a float < 2^26).
CeilTicks(f) ==
    LET l == f.lo * TicksPerSecond
        P == <<f.hi * TicksPerSecond + (l \div LimbBase), l % LimbBase>>
        s == (0 - f.exp) - 27
    IN  IF s > 29 THEN 1
        ELSE (P[1] \div (2^s)) + (IF P[1] % (2^s) # 0 \/ P[2] # 0 THEN 1 ELSE 0)

\* ------------------------------------------------------------------- state

VARIABLES
    pc,                       \* where the run is
    args,                     \* the parsed command line handed to __init__
    total_messages,           \* self.total_messages
    messages_per_second,      \* self.messages_per_second
    delay,                    \* self.delay
    exit_code,                \* the status of exit(), 0 while the process lives
    now,                      \* the wall clock, in ticks
    count,                    \* _run_log_test's count
    sent,                     \* messages handed to the logGen logger
    start_time,               \* emit_actions' start_time, in ticks
    end_time,                 \* emit_actions' end_time, in ticks
    message_count,            \* emit_actions' message_count
    current_time,             \* emit_actions' current_time, in ticks
    received_all_messages,    \* emit_actions' received_all_messages
    messages_received,        \* emit_actions' messages_received
    post_complete_time,       \* int(post_complete_time), in seconds
    message_confirmed_received, \* the dict of lines 233-235
    bound,                    \* the locals of the confirmation loop bound so far
    polls,                    \* adapter queries started
    sleeps,                   \* executions of the loop's sleep(1), line 230
    first_received,           \* the count the first adapter query returned
    outcome,                  \* how the last adapter query ended
    job,                      \* the log-insights query job in flight
    results,                  \* what emit_actions has yielded
    my_message,               \* self.my_message, a sequence of characters
    handlers,                 \* StreamHandlers added to the "logGen" logger
    lines,                    \* lines written to the sink in this invocation
    emitted,                  \* the distinct texts handed to the logger
    iterations,               \* iterations of the emitter's loop, line 101
    tick,                     \* the last per-second batch: time taken, slept
    queries,                  \* the adapter queries made: adapter, window, key
    \* Trigger_scale._run_scale
    sc_pc,                    \* where _run_scale is
    scale,                    \* self.scale
    nodes,                    \* the worker nodes the cluster has
    worker_count,             \* worker_count
    init_workers,             \* init_workers
    machineset_all_list,      \* the role of each machine set of the cluster
    machineset_worker_list,   \* the worker machine sets, by place in the list
    machine_spread,           \* machine_spread
    action,                   \* action
    patches,                  \* the machinesets.patch calls made, in order
    wait_i,                   \* i of the readiness loop, line 151
    ready_gets,               \* the machinesets.get calls of lines 152-160
    returned,                 \* what _run_scale returned
    \* run_snafu.process_generator
    gen_pc,                   \* where process_generator is
    environ,                  \* os.environ
    prefix,                   \* index_args.prefix
    run_id,                   \* index_args.run_id
    index_results,            \* index_args.index_results
    document_size_capacity_bytes, \* index_args.document_size_capacity_bytes
    wrapper_pairs,            \* the pairs emit_actions produces, in order
    consumed,                 \* how many of them process_generator has taken
    handled,                  \* what was done with each pair taken
    documents,                \* the documents process_generator has yielded
    prom_documents            \* the documents index_prom_data has indexed

logVars == <<pc, args, total_messages, messages_per_second, delay, exit_code, now,
          count, sent, start_time, end_time, message_count, current_time,
          received_all_messages, messages_received, post_complete_time,
          message_confirmed_received, bound, polls, sleeps, first_received,
          outcome, job, results, my_message, handlers, lines, emitted,
          iterations, tick, queries>>

scaleVars == <<sc_pc, scale, nodes, worker_count, init_workers,
               machineset_all_list, machineset_worker_list, machine_spread,
               action, patches, wait_i, ready_gets, returned>>

indexVars == <<gen_pc, environ, prefix, run_id, index_results,
               document_size_capacity_bytes, wrapper_pairs, consumed, handled,
               documents, prom_documents>>

vars == <<logVars, scaleVars, indexVars>>

\* A rate that was not supplied is None; None and 0 are both false in the
\* tests of lines 48, 51 and 102 and are both written 0 here.
Truthy(n) == n # 0

\* The command lines of at most the given rate and duration.  Log group and
\* URL are kept as whether they were supplied, which is all the code tests.
ArgsUpTo(rate, duration, timeout, size) ==
    [messages_per_minute : 0..rate, messages_per_second : 0..rate,
     duration : 1..duration, timeout : 0..timeout, size : 0..size,
     cloudwatch_log_group : BOOLEAN, es_url : BOOLEAN]

\* No job in flight.
NoJob == [left |-> 0, stuck |-> FALSE, running |-> FALSE]

\* No batch timed: t, tdiff and total_diff of lines 107-111 are not bound.
NoTick == [took |-> 0, slept |-> 0]

NoConfirmation ==
    [messages_confirmed_received |-> FALSE, messages_received |-> 0,
     post_complete_time |-> 0]

LogInit(argset) ==
    /\ pc = "new"
    /\ args \in argset
    /\ total_messages = 0
    /\ messages_per_second = PyInt(0)
    /\ delay = PyInt(0)
    /\ exit_code = 0
    /\ now = 0
    /\ count = 0
    /\ sent = 0
    /\ start_time = 0
    /\ end_time = 0
    /\ message_count = 0
    /\ current_time = 0
    /\ received_all_messages = FALSE
    /\ messages_received = 0
    /\ post_complete_time = 0
    /\ message_confirmed_received = NoConfirmation
    /\ bound = {}
    /\ polls = 0
    /\ sleeps = 0
    /\ first_received = 0
    /\ outcome = "none"
    /\ job = NoJob
    /\ results = <<>>
    /\ my_message = <<>>
    /\ handlers = 0
    /\ lines = 0
    /\ emitted = {}
    /\ iterations = 0
    /\ tick = NoTick
    /\ queries = {}

\* _run_scale not called.
ScaleIdle ==
    /\ sc_pc = "idle"
    /\ scale = 0
    /\ nodes = 0
    /\ worker_count = 0
    /\ init_workers = 0
    /\ machineset_all_list = <<>>
    /\ machineset_worker_list = <<>>
    /\ machine_spread = <<>>
    /\ action = "scale_nochange"
    /\ patches = <<>>
    /\ wait_i = 0
    /\ ready_gets = 0
    /\ returned = <<>>

\* process_generator not called.
IndexIdle ==
    /\ gen_pc = "idle"
    /\ environ = {}
    /\ prefix = <<>>
    /\ run_id = "NA"
    /\ index_results = FALSE
    /\ document_size_capacity_bytes = 0
    /\ wrapper_pairs = <<>>
    /\ consumed = 0
    /\ handled = <<>>
    /\ documents = <<>>
    /\ prom_documents = <<>>

\* The log generator run alone.
InitWith(argset) == LogInit(argset) /\ ScaleIdle /\ IndexIdle

\* Full runs carry the empty payload; the payload is drawn in PayloadSpec.
Init == InitWith(ArgsUpTo(MaxRate, MaxDuration, MaxTimeout, 0))

\* ------------------------------------------------------------ rate planner


\* Exited with an exit() that returns to its caller.
ExitedReturns(status) == "constructed"

\* exit(status), line 56: SystemExit leaves __init__ and ends the process.
Exited(status) == "exited"

\* Which branch of lines 48-56 is taken.
PlanMode(a) ==
    IF Truthy(a.messages_per_minute) THEN "minute"
    ELSE IF Truthy(a.messages_per_second) THEN "second"
    ELSE "none"


\* PlanTotal with the minutes of the per-second branch not turned to seconds.
PlanTotalNoSeconds(a) ==
    IF Truthy(a.messages_per_minute) THEN a.messages_per_minute * a.duration
    ELSE a.messages_per_second * a.duration

\* self.total_messages, lines 49 and 52.
PlanTotal(a) ==
    IF PlanMode(a) = "minute" THEN a.messages_per_minute * a.duration
    ELSE a.messages_per_second * SecondsPerMinute * a.duration

\* self.messages_per_second, lines 50 and 53.
PlanRate(a) ==
    IF PlanMode(a) = "minute"
    THEN FDiv(PyInt(a.messages_per_minute), PyInt(SecondsPerMinute))
    ELSE PyInt(a.messages_per_second)


\* PlanDelay with the rate taken for the delay.
PlanDelayNotInverted(rate) == ToFloat(rate)

\* self.delay, line 57.
PlanDelay(rate) == FDiv(PyInt(1), rate)

\* The characters random.choice draws from at line 58: of the 26 uppercase
\* letters and 10 digits, one letter and one digit.
Alphabet == {"A", "7"}

\* Payloads with one character too few.
PayloadsOneShort(size) == [1..(size - 1) -> Alphabet]

\* The values ''.join(... for x in range(size)) can take, lines 58-59.
Payloads(size) == [1..size -> Alphabet]

\* __init__, lines 29-59.
Construct ==
    /\ pc = "new"
    /\ IF PlanMode(args) = "none"
       THEN /\ pc' = Exited(1)
            /\ exit_code' = 1
            /\ UNCHANGED <<total_messages, messages_per_second, delay,
                           my_message>>
       ELSE /\ pc' = "constructed"
            /\ total_messages' = PlanTotal(args)
            /\ messages_per_second' = PlanRate(args)
            /\ delay' = PlanDelay(messages_per_second')
            /\ my_message' \in Payloads(args.size)
            /\ UNCHANGED exit_code
    /\ UNCHANGED <<args, now, count, sent, start_time, end_time, message_count,
                   current_time, received_all_messages, messages_received,
                   post_complete_time, message_confirmed_received, bound,
                   polls, sleeps, first_received, outcome, job, results,
                   handlers, lines, emitted, iterations, tick, queries>>
    /\ UNCHANGED <<scaleVars, indexVars>>

\* ----------------------------------------------------------------- emitter

\* time.sleep(f): the clock moves on by the least whole number of ticks that
\* lasts f seconds.
SleepTicks(f) == CeilTicks(f)


\* The loop test of line 101 leaving one message early, and running one
\* iteration over.
EmitLoopCondEarly(c, total) == c + 1 < total

EmitLoopCondOver(c, total) == c <= total

\* The loop test of line 101.
EmitLoopCond(c, total) == c < total

\* EmitMode with the per-second rate tested first.
EmitModeSecondFirst(a) ==
    IF Truthy(a.messages_per_second) THEN "second" ELSE "minute"

\* The strategy an iteration of the emitter's loop takes, line 102.
EmitMode(a) == IF Truthy(a.messages_per_minute) THEN "minute" ELSE "second"

\* emit_actions up to its call of _run_log_test (lines 205-211) and
\* _run_log_test up to its loop (lines 92-100).
EmitStart ==
    /\ pc = "constructed"
    /\ pc' = "emitting"
    /\ start_time' = now
    /\ count' = 0
    /\ UNCHANGED <<args, total_messages, messages_per_second, delay, exit_code,
                   now, sent, end_time, message_count, current_time,
                   received_all_messages, messages_received,
                   post_complete_time, message_confirmed_received, bound,
                   polls, sleeps, first_received, outcome, job, results>>
    /\ handlers' = handlers + 1
    /\ UNCHANGED <<my_message, lines, emitted, iterations, tick, queries>>
    /\ UNCHANGED <<scaleVars, indexVars>>

\* One iteration of the loop in per-minute mode, lines 102-105: one message,
\* which takes cost ticks to write, then sleep(self.delay).
EmitMinute ==
    /\ pc = "emitting"
    /\ EmitLoopCond(count, total_messages)
    /\ EmitMode(args) = "minute"
    /\ \E cost \in 0..MaxLatency :
          now' = now + cost + SleepTicks(delay)
    /\ sent' = sent + 1
    /\ count' = count + 1
    /\ UNCHANGED <<pc, args, total_messages, messages_per_second, delay,
                   exit_code, start_time, end_time, message_count,
                   current_time, received_all_messages, messages_received,
                   post_complete_time, message_confirmed_received, bound,
                   polls, sleeps, first_received, outcome, job, results>>
    /\ lines' = lines + handlers
    /\ emitted' = emitted \cup {my_message}
    /\ iterations' = iterations + 1
    /\ UNCHANGED <<my_message, handlers, tick, queries>>
    /\ UNCHANGED <<scaleVars, indexVars>>

\* BatchSleep with a full second slept after every batch.
BatchSleepFull(total_diff) == TicksPerSecond

\* The sleep of lines 112-113 after a batch that took total_diff ticks.
BatchSleep(total_diff) ==
    IF total_diff < TicksPerSecond THEN TicksPerSecond - total_diff ELSE 0

\* One iteration of the loop in per-second mode, lines 107-114: a batch of
\* messages_per_second messages, which takes total_diff ticks to write, then
\* the rest of the second asleep.
EmitSecond ==
    /\ pc = "emitting"
    /\ EmitLoopCond(count, total_messages)
    /\ EmitMode(args) = "second"
    /\ \E total_diff \in 0..(TicksPerSecond + 1) :
          /\ now' = now + total_diff + BatchSleep(total_diff)
          /\ tick' = [took |-> total_diff, slept |-> BatchSleep(total_diff)]
    /\ sent' = sent + messages_per_second.lo
    /\ count' = count + messages_per_second.lo
    /\ UNCHANGED <<pc, args, total_messages, messages_per_second, delay,
                   exit_code, start_time, end_time, message_count,
                   current_time, received_all_messages, messages_received,
                   post_complete_time, message_confirmed_received, bound,
                   polls, sleeps, first_received, outcome, job, results>>
    /\ lines' = lines + messages_per_second.lo * handlers
    /\ emitted' = emitted \cup {my_message}
    /\ iterations' = iterations + 1
    /\ UNCHANGED <<my_message, handlers, queries>>
    /\ UNCHANGED <<scaleVars, indexVars>>

\* HasBackend with the log group left out of the test.
HasBackendEsOnly(a) == a.es_url

\* Whether a backend is configured, lines 217 and 253.
HasBackend(a) == a.cloudwatch_log_group \/ a.es_url

\* The return of _run_log_test (line 115) and emit_actions on to the first
\* test of its confirmation loop (lines 211-220); lag ticks pass between the
\* clock reads of lines 212 and 220.
EmitReturn ==
    /\ pc = "emitting"
    /\ ~EmitLoopCond(count, total_messages)
    /\ message_count' = count
    /\ end_time' = now
    /\ IF HasBackend(args)
       THEN /\ received_all_messages' = FALSE
            /\ \E lag \in 0..MaxLatency : now' = now + lag
            /\ current_time' = now'
            /\ pc' = "loop"
       ELSE /\ pc' = "assemble"
            /\ UNCHANGED <<received_all_messages, now, current_time>>
    /\ UNCHANGED <<args, total_messages, messages_per_second, delay, exit_code,
                   count, sent, start_time, messages_received,
                   post_complete_time, message_confirmed_received, bound,
                   polls, sleeps, first_received, outcome, job, results>>
    /\ tick' = NoTick
    /\ UNCHANGED <<my_message, handlers, lines, emitted, iterations, queries>>
    /\ UNCHANGED <<scaleVars, indexVars>>

\* ------------------------------------------------------- confirmation loop

\* int(x) of a span of ticks, in seconds.
IntSeconds(ticks) == ticks \div TicksPerSecond

\* The deadline of line 221, in ticks.
Deadline == end_time + args.timeout * TicksPerSecond


\* The loop test of line 221 with the deadline itself left out, and with the
\* confirmation flag left out.
LoopCondStrict(received, t, deadline) == ~received /\ t < deadline

LoopCondNoFlag(received, t, deadline) == t <= deadline

\* The loop test of line 221.
LoopCond(received, t, deadline) == ~received /\ t <= deadline

\* Adapter with the document search tried first.
AdapterEsFirst(a) == IF a.es_url THEN "es_query" ELSE "cw_start"

\* The adapter chosen at lines 222-225.
Adapter(a) == IF a.cloudwatch_log_group THEN "cw_start" ELSE "es_query"

\* The test of the confirmation loop, line 221.
LoopTest ==
    /\ pc = "loop"
    /\ pc' = IF LoopCond(received_all_messages, current_time, Deadline)
             THEN Adapter(args) ELSE "assemble"
    /\ UNCHANGED <<args, total_messages, messages_per_second, delay, exit_code,
                   now, count, sent, start_time, end_time, message_count,
                   current_time, received_all_messages, messages_received,
                   post_complete_time, message_confirmed_received, bound,
                   polls, sleeps, first_received, outcome, job, results>>
    /\ UNCHANGED <<my_message, handlers, lines, emitted, iterations, tick, queries>>
    /\ UNCHANGED <<scaleVars, indexVars>>

\* QueryWindow ending at the time of the poll rather than of the emission.
QueryWindowToNow(s, e) ==
    <<IntSeconds(s) - WindowPadding, IntSeconds(now) + WindowPadding>>

\* The search window the adapters are called with and pad, lines 223, 225,
\* 132-133 and 156-157, in whole seconds: int(start_time) - 60 to
\* int(end_time) + 60.  _check_es writes the two instants as local times to
\* the second.
QueryWindow(s, e) ==
    <<IntSeconds(s) - WindowPadding, IntSeconds(e) + WindowPadding>>

\* An adapter query: which adapter, its window and the text searched for,
\* lines 127-135 and 156-177.
Query(adapter) ==
    [adapter |-> adapter, window |-> QueryWindow(start_time, end_time),
     key |-> my_message]

\* The counts a backend may report for a run that sent mc messages: none,
\* all of them, or more than were sent.
BackendCounts(mc) == {0, mc, mc + 1}

\* EsResult with nothing caught: whatever count there is comes back.
EsResultKeepsCount(how, c) == c

\* What _check_es returns (lines 184-202) for each way the request can end:
\* curl fails, the response is no JSON, it is JSON without a count, or it
\* holds the count c.
EsResult(how, c) ==
    CASE how = "transport_error" -> 0
      [] how = "not_json" -> 0
      [] how = "no_count" -> 0
      [] how = "count" -> c

EsEndings == {"transport_error", "not_json", "no_count", "count"}

\* The first count an adapter returned, kept for the record of the run.
FirstReceived(c) == IF polls = 0 THEN c ELSE first_received

\* _check_es, lines 151-202, called at line 225.
CheckEs ==
    /\ pc = "es_query"
    /\ \E how \in EsEndings, c \in BackendCounts(message_count),
          lat \in 0..MaxLatency :
          /\ messages_received' = EsResult(how, c)
          /\ outcome' = how
          /\ now' = now + lat
    /\ first_received' = FirstReceived(messages_received')
    /\ polls' = polls + 1
    /\ bound' = bound \cup {"messages_received"}
    /\ pc' = "compare"
    /\ UNCHANGED <<args, total_messages, messages_per_second, delay, exit_code,
                   count, sent, start_time, end_time, message_count,
                   current_time, received_all_messages, post_complete_time,
                   message_confirmed_received, sleeps, job, results>>
    /\ queries' = queries \cup {Query("elasticsearch")}
    /\ UNCHANGED <<my_message, handlers, lines, emitted, iterations, tick>>
    /\ UNCHANGED <<scaleVars, indexVars>>

\* _check_cloudwatch up to its status loop, lines 117-137, called at line
\* 223: the client is made and the query started.  Either call may raise,
\* and nothing catches it.  A started job reports "Complete" after at most
\* MaxJobPolls other answers, or never does.
CwStart ==
    /\ pc = "cw_start"
    /\ polls' = polls + 1
    /\ \/ /\ pc' = "aborted"
          /\ outcome' = "raised"
          /\ UNCHANGED job
       \/ /\ pc' = "cw_wait"
          /\ outcome' = "none"
          /\ \E left \in 0..MaxJobPolls, stuck \in BOOLEAN :
                job' = [left |-> IF stuck THEN 0 ELSE left, stuck |-> stuck,
                        running |-> TRUE]
    /\ UNCHANGED <<args, total_messages, messages_per_second, delay, exit_code,
                   now, count, sent, start_time, end_time, message_count,
                   current_time, received_all_messages, messages_received,
                   post_complete_time, message_confirmed_received, bound,
                   sleeps, first_received, results>>
    /\ queries' = queries \cup {Query("cloudwatch")}
    /\ UNCHANGED <<my_message, handlers, lines, emitted, iterations, tick>>
    /\ UNCHANGED <<scaleVars, indexVars>>

\* The clock after d more ticks.  While a job that never completes is polled
\* the clock is followed only until it is a second past the deadline.
ClockAfter(d) ==
    IF job.stuck
    THEN LET horizon == Deadline + TicksPerSecond
         IN  IF now >= horizon THEN now
             ELSE IF now + d > horizon THEN horizon ELSE now + d
    ELSE now + d

\* The job as the next describe_queries reports it: "Complete" once no other
\* answer is left, unless it never completes.
Described(j) ==
    IF j.stuck THEN j
    ELSE IF j.left = 0 THEN [j EXCEPT !.running = FALSE]
    ELSE [j EXCEPT !.left = @ - 1]

\* The status loop's body up to its sleep, lines 139-145: describe_queries,
\* which may raise, and the search of its answer for the job.
CwDescribe ==
    /\ pc = "cw_wait"
    /\ \/ /\ pc' = "aborted"
          /\ outcome' = "raised"
          /\ UNCHANGED job
       \/ /\ pc' = "cw_sleep"
          /\ job' = Described(job)
          /\ UNCHANGED outcome
    /\ UNCHANGED <<args, total_messages, messages_per_second, delay, exit_code,
                   now, count, sent, start_time, end_time, message_count,
                   current_time, received_all_messages, messages_received,
                   post_complete_time, message_confirmed_received, bound,
                   polls, sleeps, first_received, results>>
    /\ UNCHANGED <<my_message, handlers, lines, emitted, iterations, tick, queries>>
    /\ UNCHANGED <<scaleVars, indexVars>>

\* The sleep(1) that ends every iteration of the status loop, line 146, and
\* the loop test of line 138.
CwSleep ==
    /\ pc = "cw_sleep"
    /\ now' = ClockAfter(TicksPerSecond)
    /\ pc' = IF job.running THEN "cw_wait" ELSE "cw_results"
    /\ UNCHANGED <<args, total_messages, messages_per_second, delay, exit_code,
                   count, sent, start_time, end_time, message_count,
                   current_time, received_all_messages, messages_received,
                   post_complete_time, message_confirmed_received, bound,
                   polls, sleeps, first_received, outcome, job, results>>
    /\ UNCHANGED <<my_message, handlers, lines, emitted, iterations, tick, queries>>
    /\ UNCHANGED <<scaleVars, indexVars>>

\* The end of _check_cloudwatch, lines 148-149: get_query_results, which may
\* raise or come back without statistics, and the count it holds.
CwResults ==
    /\ pc = "cw_results"
    /\ \/ /\ pc' = "aborted"
          /\ outcome' = "raised"
          /\ UNCHANGED <<messages_received, first_received, bound, now>>
       \/ /\ \E c \in BackendCounts(message_count), lat \in 0..MaxLatency :
                /\ messages_received' = c
                /\ now' = now + lat
          /\ first_received' = IF polls = 1 THEN messages_received'
                               ELSE first_received
          /\ outcome' = "count"
          /\ bound' = bound \cup {"messages_received"}
          /\ pc' = "compare"
    /\ job' = NoJob
    /\ UNCHANGED <<args, total_messages, messages_per_second, delay, exit_code,
                   count, sent, start_time, end_time, message_count,
                   current_time, received_all_messages, post_complete_time,
                   message_confirmed_received, polls, sleeps, results>>
    /\ UNCHANGED <<my_message, handlers, lines, emitted, iterations, tick, queries>>
    /\ UNCHANGED <<scaleVars, indexVars>>

\* The comparison of line 226 taking a count of at least the emitted one.
CountsAtLeast(received, emitted_count) == received >= emitted_count

\* The comparison of line 226.
CountsMatch(received, emitted_count) == received = emitted_count

\* The rest of the loop body, lines 226-235: the counts compared, the retry
\* sleep and the clock read when they differ, and the confirmation fields.
Compare ==
    /\ pc = "compare"
    /\ IF CountsMatch(messages_received, message_count)
       THEN /\ received_all_messages' = TRUE
            /\ UNCHANGED <<sleeps, now, current_time>>
       ELSE /\ sleeps' = sleeps + 1
            /\ now' = now + TicksPerSecond
            /\ current_time' = now'
            /\ UNCHANGED received_all_messages
    /\ post_complete_time' = IntSeconds(now' - end_time)
    /\ message_confirmed_received' =
          [messages_confirmed_received |-> received_all_messages',
           messages_received |-> messages_received,
           post_complete_time |-> post_complete_time']
    /\ bound' = bound \cup {"post_complete_time", "message_confirmed_received"}
    /\ pc' = "loop"
    /\ UNCHANGED <<args, total_messages, messages_per_second, delay, exit_code,
                   count, sent, start_time, end_time, message_count,
                   messages_received, polls, first_received, outcome, job,
                   results>>
    /\ UNCHANGED <<my_message, handlers, lines, emitted, iterations, tick, queries>>
    /\ UNCHANGED <<scaleVars, indexVars>>

\* ------------------------------------------------------------ result record

\* The backend tag of _json_payload, lines 75-87.
BackendTag(a) ==
    IF a.cloudwatch_log_group THEN "cloudwatch"
    ELSE IF a.es_url THEN "elasticsearch"
    ELSE "none"

\* The keys of the record: those of _json_payload and of data, lines 62-74
\* and 249-251, the backend's (lines 75-87) and the confirmation's (line 254).
RecordKeys(a, conf) ==
    {"uuid", "cluster_name", "pod_name", "expected_duration",
     "total_expected_messages", "messages_per_second", "messages_per_minute",
     "message_size", "timeout", "pod_count", "user", "timestamp",
     "actual_duration", "message_count"}
    \cup (IF a.cloudwatch_log_group THEN {"cloudwatch_log_group", "backend"}
          ELSE IF a.es_url THEN {"es_url", "es_index", "backend"} ELSE {})
    \cup (IF HasBackend(a) THEN DOMAIN conf ELSE {})

\* The record of lines 249-256, for the confirmation fields conf.
ResultRecord(conf) ==
    [keys |-> RecordKeys(args, conf),
     index |-> "results",
     expected_duration |-> args.duration * SecondsPerMinute,
     total_expected_messages |-> total_messages,
     messages_per_second |-> messages_per_second,
     messages_per_minute |-> args.messages_per_minute,
     timeout |-> args.timeout,
     backend |-> BackendTag(args),
     actual_duration |-> IntSeconds(end_time - start_time),
     message_count |-> message_count,
     messages_confirmed_received |-> conf.messages_confirmed_received,
     messages_received |-> conf.messages_received,
     post_complete_time |-> conf.post_complete_time]

\* The locals that lines 236-254 read when a backend is configured.
ReportReads == {"messages_received", "post_complete_time",
                "message_confirmed_received"}

\* The end of emit_actions up to its yield, lines 236-257.  With a backend
\* the log lines of 238-247 and the update of line 254 read locals that only
\* the loop body binds: unbound, the read raises UnboundLocalError.
Assemble ==
    /\ pc = "assemble"
    /\ IF HasBackend(args) /\ ~(ReportReads \subseteq bound)
       THEN /\ pc' = "crashed"
            /\ UNCHANGED results
       ELSE /\ pc' = "yielded"
            /\ results' = Append(results,
                  ResultRecord(IF HasBackend(args)
                               THEN message_confirmed_received
                               ELSE NoConfirmation))
    /\ UNCHANGED <<args, total_messages, messages_per_second, delay, exit_code,
                   now, count, sent, start_time, end_time, message_count,
                   current_time, received_all_messages, messages_received,
                   post_complete_time, message_confirmed_received, bound,
                   polls, sleeps, first_received, outcome, job>>
    /\ UNCHANGED <<my_message, handlers, lines, emitted, iterations, tick, queries>>
    /\ UNCHANGED <<scaleVars, indexVars>>

\* The generator resumed after its yield, line 258.
Finish ==
    /\ pc = "yielded"
    /\ pc' = "done"
    /\ UNCHANGED <<args, total_messages, messages_per_second, delay, exit_code,
                   now, count, sent, start_time, end_time, message_count,
                   current_time, received_all_messages, messages_received,
                   post_complete_time, message_confirmed_received, bound,
                   polls, sleeps, first_received, outcome, job, results>>
    /\ UNCHANGED <<my_message, handlers, lines, emitted, iterations, tick, queries>>
    /\ UNCHANGED <<scaleVars, indexVars>>

\* emit_actions called once more in the same process, lines 204-211: its
\* locals start afresh; the object, the clock and the "logGen" logger, which
\* logging.getLogger hands out again with the handlers it has, stay.
Again ==
    /\ pc = "done"
    /\ handlers < MaxInvocations
    /\ pc' = "constructed"
    /\ count' = 0
    /\ sent' = 0
    /\ lines' = 0
    /\ emitted' = {}
    /\ iterations' = 0
    /\ tick' = NoTick
    /\ start_time' = 0
    /\ end_time' = 0
    /\ message_count' = 0
    /\ current_time' = 0
    /\ received_all_messages' = FALSE
    /\ messages_received' = 0
    /\ post_complete_time' = 0
    /\ message_confirmed_received' = NoConfirmation
    /\ bound' = {}
    /\ polls' = 0
    /\ sleeps' = 0
    /\ first_received' = 0
    /\ outcome' = "none"
    /\ job' = NoJob
    /\ results' = <<>>
    /\ queries' = {}
    /\ UNCHANGED <<args, total_messages, messages_per_second, delay, exit_code,
                   now, my_message, handlers>>
    /\ UNCHANGED <<scaleVars, indexVars>>

\* ----------------------------------------------------------- scale wrapper

\* int(f) of a float 0 <= f < 2^26: the fraction dropped.
FTrunc(f) ==
    LET s == (0 - f.exp) - 27
    IN  IF s > 26 THEN 0 ELSE f.hi \div (2^s)

\* add_per, line 125: int(self.scale / n); 0 / n is 0.0.
AddPer(requested, n) ==
    IF requested = 0 THEN 0 ELSE FTrunc(FDiv(PyInt(requested), PyInt(n)))

\* extra, line 128.
Extra(requested, n) == requested % n

\* MachineSpread with the remainder handed to no machine set.
MachineSpreadNoExtra(requested, n) == [i \in 1..n |-> AddPer(requested, n)]

\* machine_spread as lines 132-136 build it for n worker machine sets.
MachineSpread(requested, n) ==
    [i \in 1..n |->
        AddPer(requested, n) + (IF i <= Extra(requested, n) THEN 1 ELSE 0)]

\* machineset_worker_list, lines 104-109: the machine sets of role "worker",
\* in the order of the list, each named by its place in the list.
WorkerSets(all) ==
    LET idx == {i \in 1..Len(all) : all[i] = "worker"}
    IN  [k \in 1..Cardinality(idx) |->
            CHOOSE i \in idx : Cardinality({j \in idx : j < i}) = k - 1]

\* ScaleAction with up and down exchanged.
ScaleActionSwapped(current, requested) ==
    IF current = requested THEN "scale_nochange"
    ELSE IF current > requested THEN "scale_up"
    ELSE "scale_down"

\* action, lines 113-120.
ScaleAction(current, requested) ==
    IF current = requested THEN "scale_nochange"
    ELSE IF current > requested THEN "scale_down"
    ELSE "scale_up"

\* _run_scale up to its choice of action, lines 41-120: the client is set up
\* (a failure exits, lines 56-69), the nodes are counted, the worker machine
\* sets listed, and a cluster already at the requested scale is returned.
ScaleSurvey ==
    /\ sc_pc = "start"
    /\ \/ /\ sc_pc' = "exited"
          /\ UNCHANGED <<worker_count, init_workers, machineset_worker_list,
                         action, returned>>
       \/ /\ worker_count' = nodes
          /\ init_workers' = nodes
          /\ machineset_worker_list' = WorkerSets(machineset_all_list)
          /\ action' = ScaleAction(nodes, scale)
          /\ IF nodes = scale
             THEN /\ returned' = <<init_workers', worker_count', action'>>
                  /\ sc_pc' = "returned"
             ELSE /\ sc_pc' = "spread"
                  /\ UNCHANGED returned
    /\ UNCHANGED <<scale, nodes, machineset_all_list, machine_spread, patches,
                   wait_i, ready_gets>>
    /\ UNCHANGED <<logVars, indexVars>>

\* The replicas of each worker machine set, lines 124-139.  With no worker
\* machine set line 125 divides by zero.
ScaleSpread ==
    /\ sc_pc = "spread"
    /\ IF Len(machineset_worker_list) = 0
       THEN /\ sc_pc' = "crashed"
            /\ UNCHANGED machine_spread
       ELSE /\ machine_spread' =
                  MachineSpread(scale, Len(machineset_worker_list))
            /\ sc_pc' = "patch"
    /\ UNCHANGED <<scale, nodes, worker_count, init_workers,
                   machineset_all_list, machineset_worker_list, action,
                   patches, wait_i, ready_gets, returned>>
    /\ UNCHANGED <<logVars, indexVars>>

\* One iteration of the patch loop, lines 143-148; the request may raise.
ScalePatch ==
    /\ sc_pc = "patch"
    /\ \/ /\ sc_pc' = "aborted"
          /\ UNCHANGED <<patches, wait_i>>
       \/ /\ patches' = Append(patches,
                [name |-> machineset_worker_list[Len(patches) + 1],
                 replicas |-> machine_spread[Len(patches) + 1]])
          /\ IF Len(patches') = Len(machineset_worker_list)
             THEN /\ sc_pc' = "ready"
                  /\ wait_i' = 1
             ELSE /\ sc_pc' = "patch"
                  /\ UNCHANGED wait_i
    /\ UNCHANGED <<scale, nodes, worker_count, init_workers,
                   machineset_all_list, machineset_worker_list,
                   machine_spread, action, ready_gets, returned>>
    /\ UNCHANGED <<logVars, indexVars>>

\* One read of a machine set's status in the readiness loop, lines 151-161:
\* readyReplicas is None, the replicas asked for, or another number.  The
\* loop of set wait_i is left when they are the replicas asked for, or None
\* with none asked for.
ScaleReady ==
    /\ sc_pc = "ready"
    /\ ready_gets' = ready_gets + 1
    /\ \E readyReplicas \in {"None", "asked", "other"} :
          /\ readyReplicas = "other" => ready_gets < MaxReadyGets
          /\ (readyReplicas = "None" /\ machine_spread[wait_i] # 0) =>
                ready_gets < MaxReadyGets
          /\ IF \/ readyReplicas = "asked"
                \/ readyReplicas = "None" /\ machine_spread[wait_i] = 0
             THEN IF wait_i = Len(machineset_worker_list)
                  THEN /\ sc_pc' = "sched"
                       /\ UNCHANGED wait_i
                  ELSE /\ sc_pc' = "ready"
                       /\ wait_i' = wait_i + 1
             ELSE UNCHANGED <<sc_pc, wait_i>>
    /\ UNCHANGED <<scale, nodes, worker_count, init_workers,
                   machineset_all_list, machineset_worker_list,
                   machine_spread, action, patches, returned>>
    /\ UNCHANGED <<logVars, indexVars>>

\* The wait for every worker to be schedulable, lines 163-173, after which
\* the cluster has the workers it has.
ScaleSched ==
    /\ sc_pc = "sched"
    /\ sc_pc' = "recount"
    /\ nodes' \in 0..MaxWorkers
    /\ UNCHANGED <<scale, worker_count, init_workers, machineset_all_list,
                   machineset_worker_list, machine_spread, action, patches,
                   wait_i, ready_gets, returned>>
    /\ UNCHANGED <<logVars, indexVars>>

\* The nodes counted again and the return, lines 175-187.
ScaleReturn ==
    /\ sc_pc = "recount"
    /\ worker_count' = nodes
    /\ returned' = <<init_workers, worker_count', action>>
    /\ sc_pc' = "returned"
    /\ UNCHANGED <<scale, nodes, init_workers, machineset_all_list,
                   machineset_worker_list, machine_spread, action, patches,
                   wait_i, ready_gets>>
    /\ UNCHANGED <<logVars, indexVars>>

\* ------------------------------------------------------- process_generator

\* A string is kept as the sequence of its pieces, '' as <<>>; + is \o.
TriggerWord == "get_prometheus_trigger"

\* word in text, line 139.
Contains(text, word) == \E i \in 1..Len(text) : text[i] = word

\* os.getenv(name, default).
GetEnv(name, default) ==
    IF name \in DOMAIN environ THEN environ[name] ELSE default

\* Routed with the environment left out of the test.
RoutedByIndexOnly(index, env) == Contains(index, TriggerWord)

\* The test of line 139: the pair goes to Prometheus indexing.
Routed(index, env) ==
    Contains(index, TriggerWord) /\ "prom_es" \in DOMAIN env

\* es_index of get_valid_es_document, lines 166-169.
IndexName(pfx, index) ==
    IF index # <<>> THEN pfx \o <<"-">> \o index ELSE pfx

\* The sizes n documents can have.
DocSizes(n) == UNION {[1..k -> 1..MaxDocBytes] : k \in 0..n}

RECURSIVE SumBytes(_)
SumBytes(q) == IF q = <<>> THEN 0 ELSE q[1] + SumBytes(Tail(q))

\* main up to its use of process_generator, lines 44-103 and 119: with an
\* "es" server in the environment the prefix is that of "es_index", and
\* results are indexed unless the connection raised.
Main ==
    /\ gen_pc = "main"
    /\ gen_pc' = "next"
    /\ IF GetEnv("es", <<>>) # <<>>
       THEN /\ prefix' = GetEnv("es_index", <<>>)
            /\ index_results' \in BOOLEAN
       ELSE UNCHANGED <<prefix, index_results>>
    /\ UNCHANGED <<environ, run_id, document_size_capacity_bytes,
                   wrapper_pairs, consumed, handled, documents,
                   prom_documents>>
    /\ UNCHANGED <<logVars, scaleVars>>

\* The next pair taken and handed to index_prom_data, lines 138-139 and 153,
\* and index_prom_data, lines 184-245: with a "prom_es" server the prefix is
\* set anew and results are indexed unless the connection raised; when
\* results are indexed each Prometheus document goes through
\* get_valid_es_document; with results indexed and no server, es is unbound
\* at line 224.
TakePrometheus ==
    /\ gen_pc = "next"
    /\ consumed < Len(wrapper_pairs)
    /\ Routed(wrapper_pairs[consumed + 1], environ)
    /\ consumed' = consumed + 1
    /\ handled' = Append(handled,
          [id |-> consumed + 1, index |-> wrapper_pairs[consumed + 1],
           route |-> "prometheus", prefix |-> prefix])
    /\ IF GetEnv("prom_es", <<>>) # <<>>
       THEN /\ prefix' = GetEnv("es_index", <<>>)
            /\ index_results' \in BOOLEAN
       ELSE UNCHANGED <<prefix, index_results>>
    /\ IF ~index_results'
       THEN UNCHANGED <<gen_pc, prom_documents, document_size_capacity_bytes>>
       ELSE IF GetEnv("prom_es", <<>>) = <<>>
       THEN /\ gen_pc' = "crashed"
            /\ UNCHANGED <<prom_documents, document_size_capacity_bytes>>
       ELSE /\ \E sizes \in DocSizes(MaxPromDocs) :
                  /\ prom_documents' = prom_documents \o
                        [k \in 1..Len(sizes) |->
                            [_index |-> IndexName(prefix', <<"prometheus_data">>),
                             run_id |-> run_id, bytes |-> sizes[k]]]
                  /\ document_size_capacity_bytes' =
                        document_size_capacity_bytes + SumBytes(sizes)
            /\ UNCHANGED gen_pc
    /\ UNCHANGED <<environ, run_id, wrapper_pairs, documents>>
    /\ UNCHANGED <<logVars, scaleVars>>

\* The next pair taken and yielded as a document, lines 138-139 and 155-158,
\* and get_valid_es_document, lines 165-182.
YieldDocument ==
    /\ gen_pc = "next"
    /\ consumed < Len(wrapper_pairs)
    /\ ~Routed(wrapper_pairs[consumed + 1], environ)
    /\ consumed' = consumed + 1
    /\ handled' = Append(handled,
          [id |-> consumed + 1, index |-> wrapper_pairs[consumed + 1],
           route |-> "document", prefix |-> prefix])
    /\ \E document_size_bytes \in 1..MaxDocBytes :
          /\ documents' = Append(documents,
                [_index |-> IndexName(prefix, wrapper_pairs[consumed + 1]),
                 run_id |-> run_id, source |-> consumed + 1,
                 bytes |-> document_size_bytes])
          /\ document_size_capacity_bytes' =
                document_size_capacity_bytes + document_size_bytes
    /\ UNCHANGED <<gen_pc, environ, prefix, run_id, index_results,
                   wrapper_pairs, prom_documents>>
    /\ UNCHANGED <<logVars, scaleVars>>

\* emit_actions exhausted: the loops of lines 134-138 end.
GeneratorEnd ==
    /\ gen_pc = "next"
    /\ consumed = Len(wrapper_pairs)
    /\ gen_pc' = "ended"
    /\ UNCHANGED <<environ, prefix, run_id, index_results,
                   document_size_capacity_bytes, wrapper_pairs, consumed,
                   handled, documents, prom_documents>>
    /\ UNCHANGED <<logVars, scaleVars>>

\* ---------------------------------------------------------- specifications

Next ==
    \/ Construct
    \/ EmitStart
    \/ EmitMinute
    \/ EmitSecond
    \/ EmitReturn
    \/ LoopTest
    \/ CheckEs
    \/ CwStart
    \/ CwDescribe
    \/ CwSleep
    \/ CwResults
    \/ Compare
    \/ Assemble
    \/ Finish

\* A run of the wrapper.
Spec == Init /\ [][Next]_vars

\* The runs in per-minute mode with no per-second rate supplied, in which
\* EmitSecond is never enabled, and whose thread is never held up for ever:
\* the program has one thread, and a step it can take it does take.
MinuteArgs ==
    {a \in ArgsUpTo(MaxRate, MaxDuration, MaxTimeout, 0) :
        Truthy(a.messages_per_minute) /\ ~Truthy(a.messages_per_second)}

FairInit == InitWith(MinuteArgs)

FairNext ==
    \/ Construct
    \/ EmitStart
    \/ EmitMinute
    \/ EmitReturn
    \/ LoopTest
    \/ CheckEs
    \/ CwStart
    \/ CwDescribe
    \/ CwSleep
    \/ CwResults
    \/ Compare
    \/ Assemble
    \/ Finish

\* Each action is a step of the one thread, and at most one is enabled: from
\* the end of emission on, a step that can be taken is taken.
Fairness ==
    /\ WF_vars(LoopTest)
    /\ WF_vars(CheckEs)
    /\ WF_vars(CwStart)
    /\ WF_vars(CwDescribe)
    /\ WF_vars(CwSleep)
    /\ WF_vars(CwResults)
    /\ WF_vars(Compare)
    /\ WF_vars(Assemble)
    /\ WF_vars(Finish)

FairSpec == FairInit /\ [][FairNext]_vars /\ Fairness

\* The rate planner alone, over more rates and durations.
PlanInit == InitWith(ArgsUpTo(MaxPlanRate, MaxPlanDuration, MaxTimeout, 0))

PlanNext == Construct

PlanSpec == PlanInit /\ [][PlanNext]_vars

\* A process that runs the wrapper with no backend up to MaxInvocations
\* times.
SinkArgs == {a \in ArgsUpTo(MaxRate, MaxDuration, 0, 0) : ~HasBackend(a)}

SinkInit == InitWith(SinkArgs)

SinkNext ==
    \/ Construct
    \/ EmitStart
    \/ EmitMinute
    \/ EmitSecond
    \/ EmitReturn
    \/ Assemble
    \/ Finish
    \/ Again

SinkSpec == SinkInit /\ [][SinkNext]_vars

\* A run at the lowest rates with a payload of up to MaxSize characters.
PayloadInit == InitWith(ArgsUpTo(1, 1, 1, MaxSize))

PayloadSpec == PayloadInit /\ [][Next]_vars

\* The log generator not constructed.
IdleArgs ==
    [messages_per_minute |-> 0, messages_per_second |-> 0, duration |-> 1,
     timeout |-> 0, size |-> 0, cloudwatch_log_group |-> FALSE,
     es_url |-> FALSE]

\* The roles a machine set can have.
Roles == {"worker", "infra"}

\* The lists of at most n machine sets.
MachineSetLists(n) == UNION {[1..k -> Roles] : k \in 0..n}

\* The scale wrapper asked for up to MaxScale workers of a cluster of up to
\* MaxWorkers workers and MaxSets machine sets.
ScaleInit ==
    /\ LogInit({IdleArgs})
    /\ IndexIdle
    /\ sc_pc = "start"
    /\ scale \in 0..MaxScale
    /\ nodes \in 0..MaxWorkers
    /\ machineset_all_list \in MachineSetLists(MaxSets)
    /\ worker_count = 0
    /\ init_workers = 0
    /\ machineset_worker_list = <<>>
    /\ machine_spread = <<>>
    /\ action = "scale_nochange"
    /\ patches = <<>>
    /\ wait_i = 0
    /\ ready_gets = 0
    /\ returned = <<>>

ScaleNext ==
    \/ ScaleSurvey
    \/ ScaleSpread
    \/ ScalePatch
    \/ ScaleReady
    \/ ScaleSched
    \/ ScaleReturn

ScaleSpec == ScaleInit /\ [][ScaleNext]_vars

\* The index names a wrapper hands out with its actions.
Indices ==
    {<<>>, <<"results">>, <<TriggerWord>>, <<"my_", TriggerWord>>}

\* The sequences of at most n pairs, each kept as its index.
PairLists(n) == UNION {[1..k -> Indices] : k \in 0..n}

\* The environments: any of the three names set, to any of three values.
Environs ==
    UNION {[D -> {<<>>, <<"es:9200">>, <<"ripsaw">>}] :
              D \in SUBSET {"es", "es_index", "prom_es"}}

\* run_snafu started for the tool log_generator.
IndexInit ==
    /\ LogInit({IdleArgs})
    /\ ScaleIdle
    /\ gen_pc = "main"
    /\ environ \in Environs
    /\ prefix = <<"snafu-", "log_generator">>
    /\ run_id \in {"NA", "run-1"}
    /\ index_results = FALSE
    /\ document_size_capacity_bytes = 0
    /\ wrapper_pairs \in PairLists(MaxPairs)
    /\ consumed = 0
    /\ handled = <<>>
    /\ documents = <<>>
    /\ prom_documents = <<>>

IndexNext ==
    \/ Main
    \/ TakePrometheus
    \/ YieldDocument
    \/ GeneratorEnd

IndexSpec == IndexInit /\ [][IndexNext]_vars

\* ------------------------------------------------------------------ claims

EmitterPcs == {"new", "constructed", "emitting"}

QueryPcs == {"es_query", "cw_start", "cw_wait", "cw_sleep", "cw_results"}

EndedPcs == {"assemble", "crashed", "yielded", "done", "aborted"}

NoRate == ~Truthy(args.messages_per_minute) /\ ~Truthy(args.messages_per_second)

\* C1: no adapter query is started before the emitter has returned, that is
\* before all the messages of the run are emitted: while the emitter runs no
\* query has been made, and once one has, every message was sent.
C1_NoQueryBeforeEmissionEnds ==
    /\ pc \in EmitterPcs => polls = 0
    /\ (polls > 0 \/ pc \in QueryPcs \cup {"loop", "compare"}) =>
          /\ pc \notin EmitterPcs
          /\ sent = total_messages
          /\ ~EmitLoopCond(count, total_messages)

C1_Witness == pc = "compare" /\ polls = 2 /\ sent = total_messages

\* C2: the count the emitter returns is the planned total_messages, in
\* per-minute mode and in per-second mode alike.
C2_CountIsTotal ==
    pc \notin EmitterPcs \cup {"exited"} =>
        /\ message_count = total_messages
        /\ sent = total_messages

C2_Witness ==
    /\ pc = "done"
    /\ ~Truthy(args.messages_per_minute)
    /\ args.messages_per_second = 2
    /\ message_count = 2 * SecondsPerMinute * args.duration

\* C3: once emission has ended with a backend configured, the confirmation
\* phase ends: the run does not wait for ever.  (A run that an exception
\* ends counts as ended here; what is left is the waiting itself.)
C3_ConfirmationEnds == (pc = "loop") ~> (pc \in EndedPcs)

\* C4: a failed adapter query never aborts the run: the poll is observed as
\* a count of zero and the loop goes on.
C4_FailureIsZeroCount ==
    outcome \in (EsEndings \ {"count"}) \cup {"raised"} =>
        /\ pc # "aborted"
        /\ messages_received = 0
        /\ "messages_received" \in bound

\* C5: when a backend is configured and the confirmation phase has ended
\* without confirmation, the run yields its record, with
\* messages_confirmed_received false, the last count observed, and
\* post_complete_time.
C5_TimedOutRunYields ==
    (HasBackend(args) /\ pc \in {"crashed", "yielded", "done"}
        /\ ~received_all_messages) =>
        /\ Len(results) = 1
        /\ results[1].messages_confirmed_received = FALSE
        /\ results[1].messages_received = messages_received
        /\ "post_complete_time" \in results[1].keys

\* C6: when every poll returns a count other than the emitted one, the loop
\* ends timed out at the deadline: it is not left while current_time is at
\* most end_time + timeout, no query is started once current_time is past
\* it, and the post_complete_time reported is at least the timeout.
C6_TimesOutAtDeadline ==
    HasBackend(args) =>
        /\ pc \in QueryPcs => (current_time <= Deadline /\ ~received_all_messages)
        /\ (pc = "assemble" /\ ~received_all_messages) => current_time > Deadline
        /\ (results # <<>> /\ ~results[1].messages_confirmed_received) =>
              /\ current_time > Deadline
              /\ results[1].post_complete_time >= args.timeout

C6_Witness ==
    /\ pc = "done"
    /\ args.timeout = MaxTimeout
    /\ polls > 1
    /\ ~results[1].messages_confirmed_received
    /\ results[1].post_complete_time >= args.timeout

\* C7: when the first adapter query returns the emitted count, the loop ends
\* confirmed in that first tick: one query is made, the retry sleep is never
\* executed, and messages_confirmed_received is true.
C7_FirstPollConfirms ==
    ("messages_received" \in bound /\ first_received = message_count) =>
        /\ polls = 1
        /\ sleeps = 0
        /\ pc \in {"compare", "loop", "assemble", "yielded", "done"}
        /\ pc # "compare" => received_all_messages
        /\ pc \in {"yielded", "done"} =>
              /\ Len(results) = 1
              /\ results[1].messages_confirmed_received
              /\ results[1].messages_received = message_count

C7_Witness ==
    /\ pc = "done"
    /\ first_received = message_count
    /\ polls = 1
    /\ results[1].messages_confirmed_received

\* C8: with neither rate supplied, construction exits with status 1 and
\* nothing follows: no message, no adapter query, no record.
C8_NoRateExits ==
    (NoRate /\ pc # "new") =>
        /\ pc = "exited"
        /\ exit_code = 1
        /\ sent = 0
        /\ polls = 0
        /\ results = <<>>

C8_Witness == pc = "exited" /\ exit_code = 1 /\ HasBackend(args)

\* Whether two floats are the same or next to each other.
WithinOneUlp(x, y) ==
    \/ x = y
    \/ /\ x.exp = y.exp
       /\ \/ BigInc(<<x.hi, x.lo>>) = <<y.hi, y.lo>>
          \/ BigInc(<<y.hi, y.lo>>) = <<x.hi, x.lo>>
    \/ /\ x.exp + 1 = y.exp
       /\ BigInc(<<x.hi, x.lo>>) = <<HiTop, 0>> /\ <<y.hi, y.lo>> = <<HiMin, 0>>
    \/ /\ y.exp + 1 = x.exp
       /\ BigInc(<<y.hi, y.lo>>) = <<HiTop, 0>> /\ <<x.hi, x.lo>> = <<HiMin, 0>>

PerMinute == pc = "constructed" /\ Truthy(args.messages_per_minute)

\* C9, as stated: in per-minute mode total_messages is
\* messages_per_minute * duration and the delay is 60 / messages_per_minute.
C9_DelayIsSixtyOverRate ==
    PerMinute =>
        /\ total_messages = args.messages_per_minute * args.duration
        /\ delay = FDiv(PyInt(SecondsPerMinute), PyInt(args.messages_per_minute))

\* C9, as amended: in per-minute mode total_messages is
\* messages_per_minute * duration and the delay, 1 / (messages_per_minute / 60)
\* with both quotients rounded, is 60 / messages_per_minute or the float next
\* to it.
C9_DelayNearSixtyOverRate ==
    PerMinute =>
        /\ total_messages = args.messages_per_minute * args.duration
        /\ WithinOneUlp(delay, FDiv(PyInt(SecondsPerMinute),
                                    PyInt(args.messages_per_minute)))

C9_Witness ==
    /\ PerMinute
    /\ args.messages_per_minute = 11
    /\ args.duration = 2
    /\ total_messages = 22
    /\ delay # FDiv(PyInt(SecondsPerMinute), PyInt(11))

\* C10: in per-second mode total_messages is messages_per_second * 60 *
\* duration and the rate recorded is the rate supplied.
C10_PerSecondTotal ==
    (pc = "constructed" /\ ~Truthy(args.messages_per_minute)) =>
        /\ total_messages = args.messages_per_second * 60 * args.duration
        /\ messages_per_second = PyInt(args.messages_per_second)

C10_Witness ==
    /\ pc = "constructed"
    /\ ~Truthy(args.messages_per_minute)
    /\ args.messages_per_second = 3
    /\ args.duration = 2
    /\ total_messages = 360

\* Whether the run was configured with a backend, as written on the command
\* line.
Configured == args.cloudwatch_log_group \/ args.es_url

ConfirmationKeys ==
    {"messages_confirmed_received", "messages_received", "post_complete_time"}

\* C11: every run that gets past configuration yields exactly one record,
\* tagged "results", only after emission and confirmation have ended, with
\* the emitter's count as message_count: never more than one, none before
\* the phases end, and one when the run is over.
C11_EveryRunYieldsOne ==
    /\ Len(results) <= 1
    /\ results # <<>> =>
          /\ pc \in {"yielded", "done"}
          /\ results[1].index = "results"
          /\ results[1].message_count = count
    /\ pc \in {"done", "crashed", "aborted"} => Len(results) = 1

\* C12: the confirmation loop is entered only with a backend configured.
\* With none, no adapter query is made and the record holds none of the
\* three confirmation fields; with one, the record holds all three.
C12_ConfirmationOnlyWithBackend ==
    /\ ~Configured =>
          /\ polls = 0
          /\ queries = {}
          /\ pc \notin QueryPcs \cup {"loop", "compare"}
    /\ \A i \in 1..Len(results) :
          IF Configured
          THEN ConfirmationKeys \subseteq results[i].keys
          ELSE results[i].keys \cap ConfirmationKeys = {}

C12_Witness ==
    /\ pc = "done"
    /\ ~Configured
    /\ Len(results) = 1
    /\ polls = 0
    /\ "message_count" \in results[1].keys

\* C13: a document-search query that ends in a transport failure, in a
\* response that is no JSON or in one that lacks a count, returns 0 to the
\* confirmation loop, which goes on: no exception leaves the adapter.
C13_EsFailureIsZero ==
    outcome \in {"transport_error", "not_json", "no_count"} =>
        /\ messages_received = 0
        /\ "messages_received" \in bound
        /\ pc \in {"compare", "loop", "es_query", "assemble", "yielded", "done"}

C13_Witness ==
    /\ pc = "done"
    /\ outcome = "not_json"
    /\ polls > 1
    /\ results[1].messages_received = 0
    /\ ~results[1].messages_confirmed_received

\* C14: in every invocation of the emitter, a later one in the same process
\* included, each message makes exactly one line on the sink: the lines
\* written are as many as the messages, and as the count returned.
C14_OneLinePerMessage ==
    /\ lines = sent
    /\ pc \in {"assemble", "yielded", "done"} => lines = message_count

\* C15, as stated: every query of a run searches the window from
\* emission_start - 60 s to emission_end + 60 s, the two times being those
\* read before and after the emitter ran.
C15_WindowIsPaddedSpan ==
    \A q \in queries :
        /\ q.window[1] * TicksPerSecond = start_time - 60 * TicksPerSecond
        /\ q.window[2] * TicksPerSecond = end_time + 60 * TicksPerSecond

\* C15, as amended: every query of a run, of either adapter and on every
\* poll, searches the one window from int(emission_start) - 60 to
\* int(emission_end) + 60, in whole seconds.
C15_WindowIsPaddedWholeSeconds ==
    /\ \A q \in queries :
          /\ q.window[1] = (start_time \div TicksPerSecond) - 60
          /\ q.window[2] = (end_time \div TicksPerSecond) + 60
    /\ Cardinality(queries) <= 1
    /\ polls > 0 => queries # {}

C15_Witness ==
    /\ polls = 2
    /\ Cardinality(queries) = 1
    /\ end_time % TicksPerSecond # 0
    /\ now > end_time + TicksPerSecond

PerSecond == ~Truthy(args.messages_per_minute) /\ Truthy(args.messages_per_second)

\* C16: in per-second mode every tick emits messages_per_second messages,
\* then sleeps for what is left of the second, or not at all when the batch
\* took a second or more; the count grows by messages_per_second a tick, and
\* the emitter makes 60 * duration ticks.
C16_PerSecondTicks ==
    (PerSecond /\ pc \notin {"new", "exited"}) =>
        /\ count = iterations * args.messages_per_second
        /\ sent = count
        /\ (pc = "emitting" /\ iterations > 0) =>
              /\ tick.slept = (IF tick.took < TicksPerSecond
                               THEN TicksPerSecond - tick.took ELSE 0)
              /\ now - start_time >= iterations * TicksPerSecond
        /\ pc \notin EmitterPcs => iterations = 60 * args.duration

C16_Witness ==
    /\ PerSecond
    /\ pc = "emitting"
    /\ args.messages_per_second = 2
    /\ iterations = 2
    /\ count = 4
    /\ tick.took > TicksPerSecond
    /\ tick.slept = 0

\* C17: a poll whose count equals the emitted count is the last: no query
\* follows it.  A poll whose count differs is followed by one sleep of a
\* second and a fresh reading of the clock before the deadline is tested
\* again, so that between two queries there is exactly one such sleep.
C17_OneSleepBetweenPolls ==
    /\ received_all_messages =>
          /\ pc \notin QueryPcs \cup {"compare"}
          /\ messages_received = message_count
          /\ sleeps = polls - 1
    /\ (~received_all_messages /\ pc \in {"loop", "assemble", "yielded", "done"}) =>
          /\ sleeps = polls
          /\ polls > 0 => current_time = now
    /\ pc \in {"es_query", "cw_start"} => sleeps = polls
    /\ pc \in {"cw_wait", "cw_sleep", "cw_results", "compare", "aborted"} =>
          sleeps = polls - 1

C17_Witness ==
    /\ pc = "es_query"
    /\ polls = 2
    /\ sleeps = 2
    /\ current_time = now
    /\ messages_received # message_count

\* C18: in every record that holds the confirmation fields,
\* messages_confirmed_received is true exactly when messages_received is
\* message_count; a count above the emitted one is not confirmed.
C18_ConfirmedIffCountsEqual ==
    /\ \A i \in 1..Len(results) :
          ConfirmationKeys \subseteq results[i].keys =>
              (results[i].messages_confirmed_received
                  <=> results[i].messages_received = results[i].message_count)
    /\ "message_confirmed_received" \in bound =>
          (message_confirmed_received.messages_confirmed_received
              <=> message_confirmed_received.messages_received = message_count)

C18_Witness ==
    /\ pc = "done"
    /\ ConfirmationKeys \subseteq results[1].keys
    /\ results[1].messages_received > results[1].message_count
    /\ ~results[1].messages_confirmed_received

\* C19: one backend at most is active in a run.  With both configured every
\* poll queries the log-insights adapter, and the backend tag of the record
\* names the adapter that was polled.
C19_OneBackendPolled ==
    /\ \A q \in queries :
          q.adapter = (IF args.cloudwatch_log_group THEN "cloudwatch"
                       ELSE "elasticsearch")
    /\ pc \in {"cw_start", "cw_wait", "cw_sleep", "cw_results"} =>
          args.cloudwatch_log_group
    /\ pc = "es_query" => ~args.cloudwatch_log_group
    /\ (results # <<>> /\ Configured) =>
          /\ queries # {}
          /\ \A q \in queries : q.adapter = results[1].backend

C19_Witness ==
    /\ pc = "done"
    /\ args.cloudwatch_log_group
    /\ args.es_url
    /\ polls = 2
    /\ results[1].backend = "cloudwatch"
    /\ \A q \in queries : q.adapter = "cloudwatch"

UppercaseAndDigits ==
    {"A", "B", "C", "D", "E", "F", "G", "H", "I", "J", "K", "L", "M", "N",
     "O", "P", "Q", "R", "S", "T", "U", "V", "W", "X", "Y", "Z",
     "0", "1", "2", "3", "4", "5", "6", "7", "8", "9"}

\* C20: the payload is fixed at construction, size characters long, each an
\* uppercase letter or a digit, and every line emitted and the search key of
\* every query, on every poll, is that value.
C20_PayloadFixed ==
    /\ pc \notin {"new", "exited"} =>
          /\ Len(my_message) = args.size
          /\ \A i \in 1..Len(my_message) : my_message[i] \in UppercaseAndDigits
    /\ emitted \subseteq {my_message}
    /\ sent > 0 => emitted = {my_message}
    /\ \A q \in queries : q.key = my_message

C20_Witness ==
    /\ pc = "done"
    /\ args.size = 2
    /\ my_message[1] # my_message[2]
    /\ emitted = {my_message}
    /\ polls = 2
    /\ \A q \in queries : q.key = my_message

BothRates == Truthy(args.messages_per_minute) /\ Truthy(args.messages_per_second)

\* C21: with both rates supplied the run is per-minute throughout:
\* total_messages is messages_per_minute * duration, the rate recorded is
\* messages_per_minute / 60 and not the per-second rate supplied, and every
\* iteration of the emitter sends one message and no batch is ever timed.
C21_BothRatesPerMinute ==
    (BothRates /\ pc \notin {"new", "exited"}) =>
        /\ total_messages = args.messages_per_minute * args.duration
        /\ messages_per_second.kind = "float"
        /\ messages_per_second =
              FDiv(PyInt(args.messages_per_minute), PyInt(SecondsPerMinute))
        /\ count = iterations
        /\ sent = iterations
        /\ tick = NoTick
        /\ pc \notin EmitterPcs => iterations = total_messages

C21_Witness ==
    /\ BothRates
    /\ pc = "done"
    /\ args.messages_per_minute = 2
    /\ args.messages_per_second = 1
    /\ iterations = 2
    /\ sent = 2

RECURSIVE SumSeq(_)
SumSeq(q) == IF q = <<>> THEN 0 ELSE q[1] + SumSeq(Tail(q))

\* _run_scale past its choice of a scaling action and past the spread.
Scaling ==
    \/ sc_pc \in {"patch", "ready", "sched", "recount", "aborted"}
    \/ sc_pc = "returned" /\ action # "scale_nochange"

\* C22: when the worker count differs from the requested scale and there is
\* a worker machine set, the replicas patched sum to the requested scale and
\* differ by at most 1, the first scale mod n sets getting one more; each
\* worker machine set is patched once, in order, and all of them are before
\* any readiness read.
C22_SpreadSumsToScale ==
    LET n == Len(machineset_worker_list)
    IN  /\ Scaling =>
              /\ n >= 1
              /\ Len(machine_spread) = n
              /\ SumSeq(machine_spread) = scale
              /\ \A i, j \in 1..n : machine_spread[i] - machine_spread[j] <= 1
              /\ \A i \in 1..n :
                    machine_spread[i] =
                        (scale \div n) + (IF i <= scale % n THEN 1 ELSE 0)
              /\ Len(patches) <= n
              /\ \A k \in 1..Len(patches) :
                    /\ patches[k].name = machineset_worker_list[k]
                    /\ patches[k].replicas = machine_spread[k]
                    /\ machineset_all_list[patches[k].name] = "worker"
              /\ sc_pc \notin {"patch", "aborted"} => Len(patches) = n
        /\ ready_gets > 0 =>
              /\ Len(patches) = n
              /\ {patches[k].name : k \in 1..n} =
                    {i \in 1..Len(machineset_all_list) :
                        machineset_all_list[i] = "worker"}

C22_Witness ==
    /\ sc_pc = "ready"
    /\ scale = 4
    /\ machineset_all_list = <<"worker", "infra", "worker">>
    /\ patches = <<[name |-> 1, replicas |-> 2], [name |-> 3, replicas |-> 2]>>
    /\ ready_gets = 1

\* C23: a cluster already at the requested scale is returned as
\* "scale_nochange" with no machine set patched and no readiness read, the
\* worker count returned being the initial one; otherwise the action is
\* "scale_down" exactly when there are more workers than requested and
\* "scale_up" exactly when there are fewer.
C23_ActionFollowsCounts ==
    sc_pc \notin {"idle", "start", "exited"} =>
        /\ init_workers = scale =>
              /\ sc_pc = "returned"
              /\ action = "scale_nochange"
              /\ patches = <<>>
              /\ ready_gets = 0
              /\ returned = <<init_workers, init_workers, "scale_nochange">>
        /\ action = "scale_nochange" <=> init_workers = scale
        /\ action = "scale_down" <=> init_workers > scale
        /\ action = "scale_up" <=> init_workers < scale
        /\ returned # <<>> => returned[3] = action

C23_Witness ==
    /\ sc_pc = "returned"
    /\ scale = 2
    /\ init_workers = 2
    /\ Len(machineset_worker_list) = 2
    /\ returned = <<2, 2, "scale_nochange">>
    /\ patches = <<>>

\* The pairs taken that were yielded as documents, in order.
Yielded == SelectSeq(handled, LAMBDA h : h.route = "document")

\* The bytes of each document of a sequence.
BytesOf(docs) == [k \in 1..Len(docs) |-> docs[k].bytes]

\* C24: every pair emit_actions produces is handled once and in order,
\* either by Prometheus indexing, only when its index contains
\* "get_prometheus_trigger" and prom_es is in the environment, or by being
\* yielded as one document, never both and never neither.  A document
\* yielded has the prefix, "-" and the index as its _index, or the prefix
\* alone for an empty index, and the run_id, and adds its size to
\* document_size_capacity_bytes.
C24_PairsHandledOnce ==
    /\ consumed = Len(handled)
    /\ consumed <= Len(wrapper_pairs)
    /\ gen_pc = "ended" => consumed = Len(wrapper_pairs)
    /\ \A i \in 1..Len(handled) :
          /\ handled[i].id = i
          /\ handled[i].index = wrapper_pairs[i]
          /\ handled[i].route = "prometheus" <=>
                /\ \E j \in 1..Len(wrapper_pairs[i]) :
                      wrapper_pairs[i][j] = "get_prometheus_trigger"
                /\ "prom_es" \in DOMAIN environ
          /\ handled[i].route \in {"prometheus", "document"}
    /\ Len(documents) = Len(Yielded)
    /\ \A k \in 1..Len(documents) :
          /\ documents[k].source = Yielded[k].id
          /\ documents[k]._index =
                (IF Yielded[k].index = <<>> THEN Yielded[k].prefix
                 ELSE Yielded[k].prefix \o <<"-">> \o Yielded[k].index)
          /\ documents[k].run_id = run_id
          /\ documents[k].bytes > 0
    /\ document_size_capacity_bytes =
          SumBytes(BytesOf(documents)) + SumBytes(BytesOf(prom_documents))
    /\ document_size_capacity_bytes >= Len(documents)

C24_Witness ==
    /\ gen_pc = "ended"
    /\ Len(handled) = 2
    /\ handled[1].route = "prometheus"
    /\ handled[2].route = "document"
    /\ Len(documents) = 1
    /\ documents[1]._index = <<"ripsaw", "-", "results">>
    /\ documents[1].source = 2
    /\ Len(prom_documents) = 1
    /\ document_size_capacity_bytes = 2 * MaxDocBytes

====
